---- MODULE Spec2Model ----
(***************************************************************************)
(* Model of src/python/app.py: a Streamlit page that fetches a URL, keeps  *)
(* the CJK/ASCII-letter text of its body, segments it with jieba, counts   *)
(* the tokens that are not stopwords, lists the 20 most frequent ones and  *)
(* renders one chart of the selected type.                                 *)
(*                                                                         *)
(* A text is a sequence of characters; a character is a one-element name   *)
(* of its class:  "h1" "h2" CJK ideographs in U+4E00-U+9FFF, "a" an ASCII  *)
(* letter, " " the ASCII space, "\n" a whitespace character other than the *)
(* space, "1" an ASCII digit, "<" one of the characters < . * ? > .        *)
(***************************************************************************)
EXTENDS Integers, Sequences, FiniteSets, TLC

VARIABLES
    pc,             \* position of the run, or of the function being applied
    chart_type,     \* app.py:100 the sidebar selection
    response,       \* app.py:25  what requests.get answered in this run
    requests,       \* number of GET requests issued by the current run
    text,           \* app.py:111 the extracted body text
    processed_text, \* app.py:112
    again,          \* preprocess_text applied to processed_text
    stopfile,       \* the content of stopwords.txt (external resource)
    file_read,      \* the content of stopwords.txt when line 115 read it
    stopwords,      \* app.py:116
    jieba_dict,     \* the dictionary of the segmenter (fixed for the process)
    yielded,        \* the tokens jieba.cut yielded, in order
    word_counts,    \* app.py:118 Counter, as <<[word, n], ...>> in insertion order
    top_n,          \* argument N of the last most_common(N)
    listing,        \* the lines st.write wrote (app.py:120-121)
    chart,          \* what the chart builder returned / what was rendered
    error,          \* the exception that aborted the run, or "none"
    trace           \* the stages the current run has executed, in order

vars == <<pc, chart_type, response, requests, text, processed_text, again,
          stopfile, file_read, stopwords, jieba_dict, yielded, word_counts,
          top_n, listing, chart, error, trace>>

\* ------------------------------------------------------------------ bounds
MaxNormLen == 5     \* longest input text of SpecNorm
MaxLen == 4         \* longest input text of SpecCount
MaxTopN == 2        \* largest N handed to most_common in SpecCount

\* -------------------------------------------------------------- characters
Han == {"h1", "h2"}
Letter == {"a"}
Whitespace == {" ", "\n"}
BracketClass == {"<"}
NormChar == {"h1", "a", " ", "\n", "1", "<"}
CountChar == {"h1", "h2", "a", " ", "1"}

Min(a, b) == IF a < b THEN a ELSE b

TextsUpTo(alphabet, n) == UNION {[1..k -> alphabet] : k \in 0..n}

\* --------------------------------------------------------- preprocess_text
\* a faulty class that lets ASCII digits through
MatchesFirstPatternDigits(c) == c \in BracketClass \/ ~(c \in Han \/ c \in Letter \/ c = "1")

\* app.py:33  the pattern: one of < . * ? > , or anything that is neither in
\* U+4E00-U+9FFF nor an ASCII letter
MatchesFirstPattern(c) == c \in BracketClass \/ ~(c \in Han \/ c \in Letter)

\* app.py:33  re.sub(pattern, ' ', text): every matching character, one by one
sub_first(t) == [i \in 1..Len(t) |-> IF MatchesFirstPattern(t[i]) THEN " " ELSE t[i]]

\* app.py:34  re.sub(r'\s+', ' ', text): every maximal whitespace run -> one space
RECURSIVE sub_whitespace(_)
sub_whitespace(t) ==
    IF t = <<>> THEN <<>>
    ELSE IF Head(t) \in Whitespace
         THEN IF Len(t) > 1 /\ t[2] \in Whitespace
              THEN sub_whitespace(Tail(t))
              ELSE <<" ">> \o sub_whitespace(Tail(t))
         ELSE <<Head(t)>> \o sub_whitespace(Tail(t))

\* str.strip(): drop leading and trailing whitespace
RECURSIVE lstrip(_)
lstrip(t) == IF t # <<>> /\ Head(t) \in Whitespace THEN lstrip(Tail(t)) ELSE t

RECURSIVE rstrip(_)
rstrip(t) ==
    IF t # <<>> /\ t[Len(t)] \in Whitespace THEN rstrip(SubSeq(t, 1, Len(t) - 1)) ELSE t

strip(t) == rstrip(lstrip(t))

\* the two substitutions applied in the wrong order
preprocess_text_swapped(t) == strip(sub_first(sub_whitespace(t)))

\* app.py:31-34
preprocess_text(t) == strip(sub_whitespace(sub_first(t)))

\* --------------------------------------------------------------- jieba.cut
\* app.py:38  jieba.cut(text), default mode.  jieba splits the sentence into
\* blocks of [CJK, letters, digits]; every character outside a block is
\* yielded alone (whitespace included); inside a block a run of letters and
\* digits is one token and CJK characters are grouped by the dictionary,
\* here by longest match against jieba_dict, else one character.
DictChoices == {{}, {<<"h1", "h2">>}}

IsAlnum(c) == c \in Letter \/ c = "1"

RECURSIVE AlnumRun(_)
AlnumRun(t) == IF t # <<>> /\ IsAlnum(Head(t)) THEN 1 + AlnumRun(Tail(t)) ELSE 0

DictMatch(t) ==
    LET ks == {k \in 2..Len(t) : SubSeq(t, 1, k) \in jieba_dict}
    IN  IF ks = {} THEN 1 ELSE CHOOSE k \in ks : \A m \in ks : m <= k

RECURSIVE jieba_cut(_)
jieba_cut(t) ==
    IF t = <<>> THEN <<>>
    ELSE LET k == IF IsAlnum(Head(t)) THEN AlnumRun(t)
                  ELSE IF Head(t) \in Han THEN DictMatch(t)
                  ELSE 1
         IN  <<SubSeq(t, 1, k)>> \o jieba_cut(SubSeq(t, k + 1, Len(t)))

\* ----------------------------------------------------------------- Counter
\* collections.Counter over a list: a dict, so keys keep first-insertion order
CounterAdd(wc, w) ==
    IF \E i \in 1..Len(wc) : wc[i].word = w
    THEN [i \in 1..Len(wc) |-> IF wc[i].word = w
                               THEN [word |-> w, n |-> wc[i].n + 1] ELSE wc[i]]
    ELSE Append(wc, [word |-> w, n |-> 1])

RECURSIVE CounterUpdate(_, _)
CounterUpdate(wc, words) ==
    IF words = <<>> THEN wc ELSE CounterUpdate(CounterAdd(wc, Head(words)), Tail(words))

Counter(words) == CounterUpdate(<<>>, words)

\* a filter that forgets the word.strip() test
KeptNoStrip(w, sw) == w # <<>> /\ w \notin sw

\* a filter that forgets the stopword test
KeptNoStop(w, sw) == strip(w) # <<>>

\* app.py:38  the filter of the list comprehension
Kept(w, sw) == strip(w) # <<>> /\ w \notin sw

RECURSIVE Filter(_, _)
Filter(ws, sw) ==
    IF ws = <<>> THEN <<>>
    ELSE (IF Kept(Head(ws), sw) THEN <<Head(ws)>> ELSE <<>>) \o Filter(Tail(ws), sw)

\* app.py:36-39
segment_and_count(t, sw) == Counter(Filter(jieba_cut(t), sw))

\* ------------------------------------------------------------- most_common
\* an unstable variant: an item goes before the items of equal count
InsertUnstable(sorted, item) ==
    LET before == {i \in 1..Len(sorted) : sorted[i].n > item.n}
        k == Cardinality(before)
    IN  SubSeq(sorted, 1, k) \o <<item>> \o SubSeq(sorted, k + 1, Len(sorted))

\* Counter.most_common(n) is heapq.nlargest(n, items, key=count), which is
\* sorted(items, key=count, reverse=True)[:n]: a stable sort, so items of
\* equal count keep their insertion order.
InsertStable(sorted, item) ==
    LET before == {i \in 1..Len(sorted) : sorted[i].n >= item.n}
        k == Cardinality(before)
    IN  SubSeq(sorted, 1, k) \o <<item>> \o SubSeq(sorted, k + 1, Len(sorted))

RECURSIVE SortedDesc(_)
SortedDesc(wc) ==
    IF wc = <<>> THEN <<>>
    ELSE InsertStable(SortedDesc(SubSeq(wc, 1, Len(wc) - 1)), wc[Len(wc)])

most_common(wc, n) == SubSeq(SortedDesc(wc), 1, Min(n, Len(wc)))

\* ---------------------------------------------------------- chart builders
None == [kind |-> "None"]
Raised(exc) == [kind |-> "raise", exc |-> exc]

\* app.py:102  the eight options of the selectbox
ChartTypes == {"wordcloud", "vbar", "hbar", "pie", "line", "scatter", "radar", "area"}

\* selectors a caller of create_plotly_chart can pass
Selectors == ChartTypes \cup {"other"}

Figure(kind, orientation, sized, n, data, title) ==
    [kind |-> kind, orientation |-> orientation, sized |-> sized, top_n |-> n,
     data |-> data, title |-> title]

\* default arguments and literals of the chart code
PlotlyTopN == 20
RadarTopN == 10
AltairTopN == 20
ListingTopN == 20
MaxWords == 200

\* app.py:62-68  the dict literal: all five figures are built from df
chart_mapping(df, n) ==
    [c \in {"vbar", "hbar", "pie", "line", "scatter"} |->
        CASE c = "vbar"    -> Figure("bar", "v", FALSE, n, df, "vbar")
          [] c = "hbar"    -> Figure("bar", "h", FALSE, n, df, "hbar")
          [] c = "pie"     -> Figure("pie", "-", FALSE, n, df, "pie")
          [] c = "line"    -> Figure("line", "v", FALSE, n, df, "line")
          [] c = "scatter" -> Figure("scatter", "v", TRUE, n, df, "scatter")]

\* chart_mapping[chart_type] instead of chart_mapping.get(chart_type)
create_plotly_chart_index(ct, wc, n) ==
    LET m == chart_mapping(most_common(wc, n), n)
    IN  IF ct \in DOMAIN m THEN m[ct] ELSE Raised("KeyError")

\* app.py:59-69
create_plotly_chart(ct, wc, n) ==
    LET m == chart_mapping(most_common(wc, n), n)
    IN  IF ct \in DOMAIN m THEN m[ct] ELSE None

\* app.py:41-57  WordCloud(...).generate_from_frequencies raises ValueError
\* ("We need at least 1 word to plot a word cloud") for an empty mapping
generate_word_cloud(wc) ==
    IF wc = <<>> THEN Raised("ValueError")
    ELSE Figure("wordcloud", "-", TRUE, MaxWords, most_common(wc, MaxWords), "wordcloud")

\* app.py:71-79
create_plotly_radar_chart(wc, n) ==
    LET top_words == most_common(wc, n)
    IN  IF top_words = <<>> THEN None
        ELSE Figure("line_polar", "-", FALSE, n, top_words, "radar")

\* app.py:81-87
create_altair_chart(wc, n) == Figure("area", "v", FALSE, n, most_common(wc, n), "area")

\* app.py:131,134  st.plotly_chart(chart): plotly accepts a figure, a dict or a
\* list, and raises PlotlyError for anything else, None included
st_plotly_chart(c) == IF c = None THEN Raised("PlotlyError") ELSE c

\* the radar and the area branch exchanged
render_chart_swapped(ct, wc) ==
    IF ct = "wordcloud" THEN generate_word_cloud(wc)
    ELSE IF ct = "radar" THEN create_altair_chart(wc, AltairTopN)
    ELSE IF ct = "area" THEN st_plotly_chart(create_plotly_radar_chart(wc, RadarTopN))
    ELSE st_plotly_chart(create_plotly_chart(ct, wc, PlotlyTopN))

\* app.py:124-134  the dispatch on chart_type: what is displayed, or raised
render_chart(ct, wc) ==
    IF ct = "wordcloud" THEN generate_word_cloud(wc)
    ELSE IF ct = "area" THEN create_altair_chart(wc, AltairTopN)
    ELSE IF ct = "radar" THEN st_plotly_chart(create_plotly_radar_chart(wc, RadarTopN))
    ELSE st_plotly_chart(create_plotly_chart(ct, wc, PlotlyTopN))

\* ------------------------------------------------------------ the pipeline
MaxNodes == 2       \* most text nodes in a fetched body

\* the text nodes a body is made of
NodeTexts == {<<"h1">>, <<" ", "h2">>, <<"1">>, <<"h1", "h2">>, <<"a", "<", "a">>}

Bodies == UNION {[1..k -> NodeTexts] : k \in 0..MaxNodes}

\* what the GET of line 25 can bring back
Responses ==
    {[status |-> "network_error", has_body |-> FALSE, nodes |-> <<>>],
     [status |-> "http_error", has_body |-> FALSE, nodes |-> <<>>],
     [status |-> "ok", has_body |-> FALSE, nodes |-> <<>>]}
    \cup {[status |-> "ok", has_body |-> TRUE, nodes |-> b] : b \in Bodies}

NoResponse == [status |-> "none", has_body |-> FALSE, nodes |-> <<>>]

\* stopwords.txt: missing, empty, or one line
FileChoices ==
    {[exists |-> FALSE, lines |-> <<>>],
     [exists |-> TRUE, lines |-> <<>>],
     [exists |-> TRUE, lines |-> << <<"h1", "\n">> >>]}

\* app.py:29  get_text(strip=True, separator='\n'): the stripped, non-empty
\* text nodes joined by a line break
RECURSIVE get_text(_)
get_text(nodes) ==
    IF nodes = <<>> THEN <<>>
    ELSE LET s == strip(Head(nodes))
             rest == get_text(Tail(nodes))
         IN  IF s = <<>> THEN rest
             ELSE IF rest = <<>> THEN s
             ELSE s \o <<"\n">> \o rest

\* a fetch that swallows the failure and goes on with an empty text
fetch_text_from_url_swallow(r) ==
    IF r.status # "ok" THEN [kind |-> "text", text |-> <<>>]
    ELSE [kind |-> "text", text |-> IF r.has_body THEN get_text(r.nodes) ELSE <<>>]

\* app.py:20-29  requests.get raises on a network failure, raise_for_status on
\* an error status
fetch_text_from_url(r) ==
    IF r.status # "ok" THEN Raised("FetchError")
    ELSE [kind |-> "text", text |-> IF r.has_body THEN get_text(r.nodes) ELSE <<>>]

\* a stopword set read once and kept for the later runs
read_stopwords_cached(file) ==
    LET src == IF file_read.exists THEN file_read ELSE file
    IN  {strip(src.lines[i]) : i \in 1..Len(src.lines)}

\* app.py:116  set(line.strip() for line in f)
read_stopwords(file) == {strip(file.lines[i]) : i \in 1..Len(file.lines)}

Resting == {"idle", "warned", "rendered", "aborted"}

Init ==
    /\ pc = "idle"
    /\ chart_type = "wordcloud"
    /\ response = NoResponse
    /\ requests = 0
    /\ text = <<>>
    /\ processed_text = <<>>
    /\ again = <<>>
    /\ stopfile \in FileChoices
    /\ file_read = [exists |-> FALSE, lines |-> <<>>]
    /\ stopwords = {}
    /\ jieba_dict \in DictChoices
    /\ yielded = <<>>
    /\ word_counts = <<>>
    /\ top_n = 0
    /\ listing = <<>>
    /\ chart = None
    /\ error = "none"
    /\ trace = <<>>

\* a rerun of the script (app.py:96-109) starts from an empty page and with
\* no local of the previous run; the file and the segmenter stay
FreshRun ==
    /\ response' = NoResponse
    /\ requests' = 0
    /\ text' = <<>>
    /\ processed_text' = <<>>
    /\ stopwords' = {}
    /\ yielded' = <<>>
    /\ word_counts' = <<>>
    /\ top_n' = 0
    /\ listing' = <<>>
    /\ chart' = None
    /\ error' = "none"
    /\ UNCHANGED <<again, stopfile, file_read, jieba_dict>>

\* app.py:105-107  no URL entered: the warning, and nothing else
MainWarn ==
    /\ pc \in Resting
    /\ \E ct \in ChartTypes : chart_type' = ct
    /\ pc' = "warned"
    /\ trace' = <<"warning">>
    /\ FreshRun

\* app.py:109  a rerun with a URL in which the button was not pressed
MainNoSubmit ==
    /\ pc \in Resting
    /\ \E ct \in ChartTypes : chart_type' = ct
    /\ pc' = "idle"
    /\ trace' = <<>>
    /\ FreshRun

\* app.py:109-110  the button pressed
MainSubmit ==
    /\ pc \in Resting
    /\ \E ct \in ChartTypes : chart_type' = ct
    /\ pc' = "submitted"
    /\ trace' = <<>>
    /\ FreshRun

\* app.py:111  text = fetch_text_from_url(url)
Fetch ==
    /\ pc = "submitted"
    /\ \E r \in Responses :
          LET got == fetch_text_from_url(r)
          IN  /\ response' = r
              /\ requests' = requests + 1
              /\ IF got.kind = "raise"
                 THEN /\ error' = got.exc
                      /\ pc' = "aborted"
                      /\ trace' = Append(trace, "fetch")
                      /\ text' = text
                 ELSE /\ text' = got.text
                      /\ pc' = "fetched"
                      /\ trace' = trace \o <<"fetch", "extract">>
                      /\ error' = error
    /\ UNCHANGED <<chart_type, processed_text, again, stopfile, file_read, stopwords,
                   jieba_dict, yielded, word_counts, top_n, listing, chart>>

\* app.py:112
Preprocess ==
    /\ pc = "fetched"
    /\ processed_text' = preprocess_text(text)
    /\ pc' = "preprocessed"
    /\ trace' = Append(trace, "normalize")
    /\ UNCHANGED <<chart_type, response, requests, text, again, stopfile, file_read,
                   stopwords, jieba_dict, yielded, word_counts, top_n, listing,
                   chart, error>>

\* app.py:115-116  open() raises FileNotFoundError when the file is missing
LoadStopwords ==
    /\ pc = "preprocessed"
    /\ file_read' = stopfile
    /\ trace' = Append(trace, "stopwords")
    /\ IF stopfile.exists
       THEN /\ stopwords' = read_stopwords(stopfile)
            /\ pc' = "stopwords_loaded"
            /\ error' = error
       ELSE /\ stopwords' = stopwords
            /\ pc' = "aborted"
            /\ error' = "FileNotFoundError"
    /\ UNCHANGED <<chart_type, response, requests, text, processed_text, again,
                   stopfile, jieba_dict, yielded, word_counts, top_n, listing,
                   chart>>

\* app.py:118
SegmentAndCount ==
    /\ pc = "stopwords_loaded"
    /\ yielded' = jieba_cut(processed_text)
    /\ word_counts' = segment_and_count(processed_text, stopwords)
    /\ pc' = "segmented"
    /\ trace' = Append(trace, "count")
    /\ UNCHANGED <<chart_type, response, requests, text, processed_text, again,
                   stopfile, file_read, stopwords, jieba_dict, top_n, listing,
                   chart, error>>

\* app.py:119-121
WriteListing ==
    /\ pc = "segmented"
    /\ top_n' = ListingTopN
    /\ listing' = most_common(word_counts, ListingTopN)
    /\ pc' = "listed"
    /\ trace' = Append(trace, "listing")
    /\ UNCHANGED <<chart_type, response, requests, text, processed_text, again,
                   stopfile, file_read, stopwords, jieba_dict, yielded, word_counts,
                   chart, error>>

\* app.py:124-134
Render ==
    /\ pc = "listed"
    /\ LET shown == render_chart(chart_type, word_counts)
       IN  IF shown.kind = "raise"
           THEN /\ error' = shown.exc
                /\ pc' = "aborted"
                /\ chart' = chart
                /\ trace' = trace
           ELSE /\ chart' = shown
                /\ pc' = "rendered"
                /\ trace' = Append(trace, "chart")
                /\ error' = error
    /\ UNCHANGED <<chart_type, response, requests, text, processed_text, again,
                   stopfile, file_read, stopwords, jieba_dict, yielded, word_counts,
                   top_n, listing>>

\* somebody edits, creates or removes stopwords.txt
EditStopfile ==
    /\ \E f \in FileChoices : f # stopfile /\ stopfile' = f
    /\ UNCHANGED <<pc, chart_type, response, requests, text, processed_text, again,
                   file_read, stopwords, jieba_dict, yielded, word_counts, top_n,
                   listing, chart, error, trace>>

Next ==
    \/ MainWarn
    \/ MainNoSubmit
    \/ MainSubmit
    \/ Fetch
    \/ Preprocess
    \/ LoadStopwords
    \/ SegmentAndCount
    \/ WriteListing
    \/ Render
    \/ EditStopfile

Spec == Init /\ [][Next]_vars

\* ------------------------------------------- the functions on their own
InitFunctions ==
    /\ pc = "input"
    /\ chart_type = "wordcloud"
    /\ response = NoResponse
    /\ requests = 0
    /\ processed_text = <<>>
    /\ again = <<>>
    /\ stopfile = [exists |-> FALSE, lines |-> <<>>]
    /\ file_read = [exists |-> FALSE, lines |-> <<>>]
    /\ stopwords = {}
    /\ yielded = <<>>
    /\ word_counts = <<>>
    /\ top_n = 0
    /\ listing = <<>>
    /\ chart = None
    /\ error = "none"
    /\ trace = <<>>

InitNorm ==
    /\ InitFunctions
    /\ text \in TextsUpTo(NormChar, MaxNormLen)
    /\ jieba_dict = {}

InitCount ==
    /\ InitFunctions
    /\ text \in TextsUpTo(CountChar, MaxLen)
    /\ jieba_dict \in DictChoices

\* preprocess_text(text)
CallPreprocess ==
    /\ pc = "input"
    /\ processed_text' = preprocess_text(text)
    /\ pc' = "normalized"
    /\ UNCHANGED <<chart_type, response, requests, text, again, stopfile, file_read,
                   stopwords, jieba_dict, yielded, word_counts, top_n, listing,
                   chart, error, trace>>

\* preprocess_text(preprocess_text(text))
CallPreprocessAgain ==
    /\ pc = "normalized"
    /\ again' = preprocess_text(processed_text)
    /\ pc' = "renormalized"
    /\ UNCHANGED <<chart_type, response, requests, text, processed_text, stopfile,
                   file_read, stopwords, jieba_dict, yielded, word_counts, top_n,
                   listing, chart, error, trace>>

StopChoices == {{}, {<<"h1">>}, {<<"a">>, <<"h1", "h2">>, <<" ">>}}

\* segment_and_count(preprocess_text(text), sw)
CallSegmentAndCount ==
    /\ pc = "normalized"
    /\ \E sw \in StopChoices :
          /\ stopwords' = sw
          /\ yielded' = jieba_cut(processed_text)
          /\ word_counts' = segment_and_count(processed_text, sw)
    /\ pc' = "counted"
    /\ UNCHANGED <<chart_type, response, requests, text, processed_text, again,
                   stopfile, file_read, jieba_dict, top_n, listing, chart, error,
                   trace>>

\* segment_and_count(text, sw) on a text that was not normalized
CallSegmentAndCountRaw ==
    /\ pc = "input"
    /\ \E sw \in StopChoices :
          /\ stopwords' = sw
          /\ yielded' = jieba_cut(text)
          /\ word_counts' = segment_and_count(text, sw)
    /\ pc' = "counted_raw"
    /\ UNCHANGED <<chart_type, response, requests, text, processed_text, again,
                   stopfile, file_read, jieba_dict, top_n, listing, chart, error,
                   trace>>

\* word_counts.most_common(n)
CallMostCommon ==
    /\ pc = "counted"
    /\ \E n \in 0..MaxTopN :
          /\ top_n' = n
          /\ listing' = most_common(word_counts, n)
    /\ pc' = "ranked"
    /\ UNCHANGED <<chart_type, response, requests, text, processed_text, again,
                   stopfile, file_read, stopwords, jieba_dict, yielded, word_counts,
                   chart, error, trace>>

\* create_plotly_chart(ct, word_counts, n)
CallCreatePlotlyChart ==
    /\ pc = "counted"
    /\ \E ct \in Selectors, n \in 0..MaxTopN :
          /\ chart_type' = ct
          /\ top_n' = n
          /\ chart' = create_plotly_chart(ct, word_counts, n)
    /\ pc' = "charted"
    /\ UNCHANGED <<response, requests, text, processed_text, again, stopfile,
                   file_read, stopwords, jieba_dict, yielded, word_counts, listing,
                   error, trace>>

NextNorm == CallPreprocess \/ CallPreprocessAgain

NextCount ==
    \/ CallPreprocess
    \/ CallSegmentAndCount
    \/ CallSegmentAndCountRaw
    \/ CallMostCommon
    \/ CallCreatePlotlyChart

SpecNorm == InitNorm /\ [][NextNorm]_vars

SpecCount == InitCount /\ [][NextCount]_vars

\* -------------------------------------------------------------- properties
IsKeptChar(c) == c \in Han \/ c \in Letter

\* C1: the Normalizer's result holds only CJK ideographs, ASCII letters and
\* ASCII spaces, neither starts nor ends with a space, and has no two
\* consecutive spaces.
C1_NormalizedShape ==
    pc \in {"normalized", "renormalized"} =>
        /\ \A i \in 1..Len(processed_text) :
              IsKeptChar(processed_text[i]) \/ processed_text[i] = " "
        /\ processed_text # <<>> =>
              processed_text[1] # " " /\ processed_text[Len(processed_text)] # " "
        /\ \A i \in 1..(Len(processed_text) - 1) :
              ~(processed_text[i] = " " /\ processed_text[i + 1] = " ")

C1_Witness ==
    /\ pc = "normalized"
    /\ Len(text) = 4
    /\ text[1] = "\n" /\ text[2] = "a" /\ text[3] = "1" /\ text[4] = "h1"
    /\ processed_text = <<"a", " ", "h1">>

\* C2: the Normalizer is idempotent: applying it to its own result changes
\* nothing.
C2_Idempotent == pc = "renormalized" => again = processed_text

C2_Witness ==
    /\ pc = "renormalized"
    /\ text # processed_text
    /\ \E i \in 1..Len(processed_text) : processed_text[i] = " "

Occurrences(w, ws) == Cardinality({i \in 1..Len(ws) : ws[i] = w})

AllWhitespace(w) == \A i \in 1..Len(w) : w[i] \in Whitespace

\* C3: no key of the frequency map is empty or whitespace-only, none is a
\* member of the stopword set, and each key's count is at least 1 and is the
\* number of times the segmenter yielded that token.
C3_KeysAndCounts ==
    pc \in {"counted", "counted_raw"} =>
        /\ \A i \in 1..Len(word_counts) :
              /\ word_counts[i].word # <<>>
              /\ ~AllWhitespace(word_counts[i].word)
              /\ word_counts[i].word \notin stopwords
              /\ word_counts[i].n >= 1
              /\ word_counts[i].n = Occurrences(word_counts[i].word, yielded)
        /\ \A i, j \in 1..Len(word_counts) :
              word_counts[i].word = word_counts[j].word => i = j

C3_Witness ==
    /\ pc = "counted"
    /\ \E i \in 1..Len(yielded) : yielded[i] \in stopwords
    /\ \E i \in 1..Len(yielded) : AllWhitespace(yielded[i])
    /\ \E i \in 1..Len(word_counts) : word_counts[i].n >= 1

FirstSeen(w) == CHOOSE i \in 1..Len(yielded) :
                    yielded[i] = w /\ \A j \in 1..(i - 1) : yielded[j] # w

\* a ranks before b: higher count, or equal count and produced first
RanksBefore(a, b) ==
    a.n > b.n \/ (a.n = b.n /\ FirstSeen(a.word) < FirstSeen(b.word))

\* C4: most_common(N) returns min(N, number of keys) pairs of the map, by
\* descending count, equal counts in the order the segmenter first produced
\* the tokens, and every pair left out ranks after every pair kept.
C4_TopN ==
    pc = "ranked" =>
        /\ Len(listing) = Min(top_n, Len(word_counts))
        /\ \A i \in 1..Len(listing) : \E k \in 1..Len(word_counts) : word_counts[k] = listing[i]
        /\ \A i, j \in 1..Len(listing) : i < j => RanksBefore(listing[i], listing[j])
        /\ \A k \in 1..Len(word_counts) :
              (\A i \in 1..Len(listing) : listing[i] # word_counts[k]) =>
                  \A i \in 1..Len(listing) : RanksBefore(listing[i], word_counts[k])

\* a tie at the cut-off: a key left out has the count of the last one kept
C4_Witness ==
    /\ pc = "ranked"
    /\ top_n >= 1
    /\ Len(listing) = top_n
    /\ \E k \in 1..Len(word_counts) :
          /\ word_counts[k].n = listing[Len(listing)].n
          /\ \A i \in 1..Len(listing) : listing[i] # word_counts[k]

ExpectedKind(ct) ==
    CASE ct \in {"vbar", "hbar"} -> "bar"
      [] ct = "pie" -> "pie"
      [] ct = "line" -> "line"
      [] ct = "scatter" -> "scatter"

\* C7: create_plotly_chart returns no chart, and raises nothing, for a
\* selector outside vertical bar, horizontal bar, pie, line, scatter; for one
\* of these it returns the figure of that type over the top-N pairs.
C7_UnknownSelector ==
    pc = "charted" =>
        IF chart_type \in {"vbar", "hbar", "pie", "line", "scatter"}
        THEN /\ chart.kind = ExpectedKind(chart_type)
             /\ chart.title = chart_type
             /\ chart.orientation = (IF chart_type = "hbar" THEN "h"
                                     ELSE IF chart_type = "pie" THEN "-" ELSE "v")
             /\ chart.top_n = top_n
             /\ chart.sized = (chart_type = "scatter")
             /\ Len(chart.data) = Min(top_n, Len(word_counts))
             /\ \A i \in 1..Len(chart.data) :
                   /\ \E k \in 1..Len(word_counts) : word_counts[k] = chart.data[i]
                   /\ \A k \in 1..Len(word_counts) : word_counts[k].n <= chart.data[1].n
        ELSE chart = None

C7_Witness ==
    /\ pc = "charted"
    /\ chart_type = "other"
    /\ word_counts # <<>>
    /\ top_n >= 1
    /\ chart = None

C5_FetchFailureAborts ==
    response.status \in {"network_error", "http_error"} =>
        /\ pc = "aborted"
        /\ error = "FetchError"
        /\ requests = 1
        /\ trace = <<"fetch">>
        /\ listing = <<>>
        /\ chart = None
        /\ stopwords = {}

C5_Witness ==
    /\ response.status = "http_error"
    /\ pc = "aborted"
    /\ stopfile.exists
    /\ file_read.exists

\* the text the Normalizer gets from the response of the current run
RunText == IF response.has_body THEN get_text(response.nodes) ELSE <<>>

\* C6: a document with no body or no retainable text never ends the run in
\* an error, whatever chart type is selected (a missing stopword file is not
\* counted as such a failure).
C6_EmptyNeverFails ==
    (response.status = "ok" /\ preprocess_text(RunText) = <<>>) =>
        error \in {"none", "FileNotFoundError"}

Stages == <<"fetch", "extract", "normalize", "stopwords", "count", "listing", "chart">>

ChartKind(ct) ==
    CASE ct = "wordcloud" -> "wordcloud"
      [] ct = "area" -> "area"
      [] ct = "radar" -> "line_polar"
      [] ct \in {"vbar", "hbar"} -> "bar"
      [] ct = "pie" -> "pie"
      [] ct = "line" -> "line"
      [] ct = "scatter" -> "scatter"

\* C8: the stages run in the order fetch, extract, normalize, stopwords,
\* count, listing, chart; a run that ends well has run each once, the listing
\* before the chart, and shows the one chart of the selected type.
C8_StageOrder ==
    /\ pc \notin {"warned"} =>
          /\ Len(trace) <= Len(Stages)
          /\ trace = SubSeq(Stages, 1, Len(trace))
    /\ pc = "rendered" =>
          /\ trace = Stages
          /\ chart.kind = ChartKind(chart_type)
          /\ chart.title = chart_type
          /\ chart.top_n = (IF chart_type = "radar" THEN 10
                            ELSE IF chart_type = "wordcloud" THEN 200 ELSE 20)
          /\ Len(chart.data) = Min(chart.top_n, Len(word_counts))
          /\ chart.data = SubSeq(listing, 1, Len(chart.data))
    /\ pc # "rendered" => chart = None

C8_Witness ==
    /\ pc = "rendered"
    /\ chart_type = "radar"
    /\ Len(listing) >= 2

\* the stopword set the file content read in the current run stands for
RunStopwords == {strip(file_read.lines[i]) : i \in 1..Len(file_read.lines)}

RunCounts == Counter(Filter(jieba_cut(preprocess_text(RunText)), RunStopwords))

\* C9: what a run lists and draws is a function of its own response, chart
\* type and the stopword file as read in that run, whatever ran before.
C9_Stateless ==
    /\ pc \in {"stopwords_loaded", "segmented", "listed", "rendered"} =>
          stopwords = RunStopwords
    /\ pc \in {"segmented", "listed", "rendered"} => word_counts = RunCounts
    /\ pc \in {"listed", "rendered"} => listing = most_common(RunCounts, ListingTopN)
    /\ pc = "rendered" =>
          chart.data = most_common(RunCounts, IF chart_type = "radar" THEN 10 ELSE 20)

\* a run after the stopword file changed: the new content decides
C9_Witness ==
    /\ pc = "rendered"
    /\ file_read.lines # <<>>
    /\ \E i \in 1..Len(yielded) : yielded[i] \in stopwords
    /\ word_counts # <<>>

====
